---- MODULE Spec2Model ----
(***************************************************************************)
(* Document redaction app.                                                 *)
(*                                                                         *)
(* These state machines share this module:                                 *)
(*   Spec       the page component of the frontend (file list, uploads,    *)
(*              the fire-and-forget write and its polling chain) together  *)
(*              with the requests it has in flight and the Delta table;    *)
(*   SpecPage   the page component with its redaction and export handlers   *)
(*              as well, one markdown file to choose;                      *)
(*   SpecPair   the page component with its redaction handler, the markdown  *)
(*              file and the PDF chosen together;                          *)
(*   SpecSession the page component with its redaction and export handlers, *)
(*              either file to choose, one at a time;                      *)
(*   SpecFiles  the file list of the page: selection, upload, preview;     *)
(*   SpecSubmit the file list with several files and the write with its    *)
(*              polling chain;                                             *)
(*   SpecExport one call of the backend endpoint export_document;           *)
(*   SpecEndpoints one call of upload_to_uc or of export_document;         *)
(*   SpecBatch  one call of the backend endpoint redact_documents;         *)
(*   SpecRedact the substitution pass of a format handler, applied twice.  *)
(***************************************************************************)
EXTENDS Integers, Sequences, FiniteSets, TLC

VARIABLES
    selectedFiles,          \* page.tsx:80   list of SelectedFile
    uploads,                \* upload requests in flight, in the order they were sent
    deltaTableResults,      \* page.tsx:112  rows shown to the user
    deltaTableLoading,      \* page.tsx:113
    deltaTableError,        \* page.tsx:114
    processedSessionFiles,  \* page.tsx:115
    showDeltaTableResults,  \* page.tsx:116
    writeRequests,          \* the /api/write-to-delta-table requests in flight
    writesIssued,           \* number of write requests sent so far
    chains,                 \* the pollForResults chains that have a timer armed or a query in flight,
                            \* each with the number of query requests it has sent
    deltaTable,             \* paths that have a row in the Delta table
    failedWrites,           \* the write requests that have failed
    \* one call of redact_documents
    request,                \* the call: its file_paths and the configuration it runs under
    docIndex,               \* position of the for loop in request.file_paths
    redacted_files,         \* backendchanges.md:391
    response,               \* "running", or how the call ended
    \* the substitution pass of a handler, applied twice
    rText,                  \* the unit text given to the first pass
    rMap,                   \* the EntityMap
    rOut1,                  \* result of the first pass
    rOut2,                  \* result of the second pass
    rPc,                    \* "input", "once", "twice"
    \* the page: preview, redaction, export
    previews,                   \* file.text() reads in flight (handleFilePreview)
    documentRedactionLoading,   \* page.tsx:124
    documentRedactionError,
    documentRedactionSuccess,
    redactedFiles,
    redactRequests,             \* the /api/redact-document requests in flight
    exportLoading,              \* page.tsx:130
    exportError,
    exportSuccess,
    exportInfo,
    exportRequests,             \* the /api/export-document requests in flight
    \* one call of export_document
    xRequest,               \* the call, the configuration and the table it runs against
    xPc,                    \* "checks", "query", "export", "done"
    xContentRead,           \* the SELECT on the Delta table has been executed
    xResponse,              \* "running", or how the call ended
    \* one call of upload_to_uc
    upRequest,              \* the call: its files and the configuration it runs under
    upIndex,                \* position of the for loop in the files
    uploaded_files,         \* backendchanges.md:321
    upResponse              \* "running", or how the call ended

uiVars == <<selectedFiles, uploads, deltaTableResults, deltaTableLoading,
            deltaTableError, processedSessionFiles, showDeltaTableResults,
            writeRequests, writesIssued, chains, deltaTable, failedWrites>>

beVars == <<request, docIndex, redacted_files, response>>

rVars == <<rText, rMap, rOut1, rOut2, rPc>>

upVars == <<upRequest, upIndex, uploaded_files, upResponse>>

xVars == <<xRequest, xPc, xContentRead, xResponse, upVars>>

pgVars == <<previews, documentRedactionLoading, documentRedactionError,
            documentRedactionSuccess, redactedFiles, redactRequests,
            exportLoading, exportError, exportSuccess, exportInfo, exportRequests,
            xVars>>

vars == <<uiVars, beVars, rVars, pgVars>>

----------------------------------------------------------------------------
(* Bounds *)

FileNames == {"a.md", "b.pdf"}
MaxUploads == 1
MaxSubmits == 2
MaxBatch == 3
MaxLen == 3
MaxKeyLen == 2
MaxKeys == 2
MaxPreviews == 1
MaxFiles == 2
MaxRedacts == 2
MaxExports == 2

(* Program constants *)

maxAttempts == 30

----------------------------------------------------------------------------
(* Helpers *)

Range(s) == {s[i] : i \in DOMAIN s}

\* upload_to_uc: uc_file_path = f"{base_path}/{file.filename}"
UcPath(name) == <<"/Volumes", name>>

NoPath == <<>>

NoPreview == <<>>

\* the preview handleFilePreview builds for a file of this name
PreviewOf(name) == <<"preview", name>>

\* file.name.endsWith('.md'): the preview is built from file.text()
ReadsText(name) == name \in {"a.md"}

\* uploaded_files[0].redaction_supported in the answer to the upload of name
redaction_supported(name) == name \in {"a.md"}

\* handleFileChange: the entry built for one chosen file
NewFile(name) ==
    [name |-> name, isUploaded |-> FALSE, ucPath |-> NoPath,
     isProcessing |-> FALSE, processError |-> FALSE,
     redactionSupported |-> FALSE, preview |-> NoPreview]

\* the selections the file input delivers: one chosen file at a time
FileLists == {<<name>> : name \in FileNames}

\* selections of several files: distinct names, up to MaxFiles of them
MultipleFileLists ==
    {names \in UNION {[1..n -> FileNames] : n \in 1..MaxFiles} :
        \A i, j \in DOMAIN names : i # j => names[i] # names[j]}

\* the selections when there is one markdown file to choose
MarkdownFileLists == {<<"a.md">>}

\* the sequence without its n-th element
RemoveAt(s, n) == SubSeq(s, 1, n - 1) \o SubSeq(s, n + 1, Len(s))

\* { ...f, field: value, ... }
Spread(f, upd) == [k \in DOMAIN f |-> IF k \in DOMAIN upd THEN upd[k] ELSE f[k]]

\* prev.map((f, i) => i === fileIndex ? { ...f, ...upd } : f)
MapAt(list, idx, upd) ==
    [i \in DOMAIN list |-> IF i = idx THEN Spread(list[i], upd) ELSE list[i]]

\* selectedFiles.filter(f => f.isUploaded && f.ucPath).map(f => f.ucPath)
UploadedPaths ==
    {selectedFiles[i].ucPath : i \in {j \in DOMAIN selectedFiles :
        selectedFiles[j].isUploaded /\ selectedFiles[j].ucPath # NoPath}}

\* the button guard without its loading test
WriteButtonDisabled_NoLoadingTest ==
    {i \in DOMAIN selectedFiles : selectedFiles[i].isUploaded} = {}

\* disabled={deltaTableLoading || selectedFiles.filter(f => f.isUploaded).length === 0}
WriteButtonDisabled ==
    \/ deltaTableLoading
    \/ {i \in DOMAIN selectedFiles : selectedFiles[i].isUploaded} = {}

\* a write job is pending while its polling chain is alive
Pending(job) == \E c \in chains : c.job = job

----------------------------------------------------------------------------
(* Frontend: file list and uploads *)

UiInit ==
    /\ selectedFiles = <<>>
    /\ uploads = <<>>
    /\ deltaTableResults = {}
    /\ deltaTableLoading = FALSE
    /\ deltaTableError = "null"
    /\ processedSessionFiles = {}
    /\ showDeltaTableResults = FALSE
    /\ writeRequests = {}
    /\ writesIssued = 0
    /\ chains = {}
    /\ deltaTable = {}
    /\ failedWrites = {}

\* the user picks files: the list is replaced, nothing in flight is cancelled
handleFileChange ==
    \E names \in FileLists :
        /\ selectedFiles' = [i \in DOMAIN names |-> NewFile(names[i])]
        /\ UNCHANGED <<uploads, deltaTableResults, deltaTableLoading, deltaTableError,
                       processedSessionFiles, showDeltaTableResults, writeRequests, writesIssued,
                       chains, deltaTable>>
        /\ UNCHANGED <<failedWrites, beVars, rVars, pgVars>>

\* handleFileChange when the user picks several files at once
handleFileChangeMultiple ==
    \E names \in MultipleFileLists :
        /\ selectedFiles' = [i \in DOMAIN names |-> NewFile(names[i])]
        /\ UNCHANGED <<uploads, deltaTableResults, deltaTableLoading, deltaTableError,
                       processedSessionFiles, showDeltaTableResults, writeRequests, writesIssued,
                       chains, deltaTable>>
        /\ UNCHANGED <<failedWrites, beVars, rVars, pgVars>>

\* handleFileChange when the user has one markdown file to pick
handleFileChangeMarkdown ==
    \E names \in MarkdownFileLists :
        /\ selectedFiles' = [i \in DOMAIN names |-> NewFile(names[i])]
        /\ UNCHANGED <<uploads, deltaTableResults, deltaTableLoading, deltaTableError,
                       processedSessionFiles, showDeltaTableResults, writeRequests, writesIssued,
                       chains, deltaTable>>
        /\ UNCHANGED <<failedWrites, beVars, rVars, pgVars>>

\* handleFileChange when the user picks the markdown file and the PDF together
handleFileChangePair ==
    \E names \in {<<"a.md", "b.pdf">>} :
        /\ selectedFiles' = [i \in DOMAIN names |-> NewFile(names[i])]
        /\ UNCHANGED <<uploads, deltaTableResults, deltaTableLoading, deltaTableError,
                       processedSessionFiles, showDeltaTableResults, writeRequests, writesIssued,
                       chains, deltaTable>>
        /\ UNCHANGED <<failedWrites, beVars, rVars, pgVars>>

\* Upload button of entry fileIndex: mark it processing and send the file
handleProcessFile ==
    \E fileIndex \in DOMAIN selectedFiles :
        /\ ~selectedFiles[fileIndex].isProcessing
        /\ ~selectedFiles[fileIndex].isUploaded
        /\ Len(uploads) < MaxUploads
        /\ selectedFiles' = MapAt(selectedFiles, fileIndex,
               [isProcessing |-> TRUE, processError |-> FALSE])
        /\ uploads' = Append(uploads,
               [fileIndex |-> fileIndex, name |-> selectedFiles[fileIndex].name])
        /\ UNCHANGED <<deltaTableResults, deltaTableLoading, deltaTableError,
                       processedSessionFiles, showDeltaTableResults, writeRequests, writesIssued,
                       chains, deltaTable>>
        /\ UNCHANGED <<failedWrites, beVars, rVars, pgVars>>

\* the Upload buttons when the uploads of several entries run at a time
handleProcessFileEach ==
    \E fileIndex \in DOMAIN selectedFiles :
        /\ ~selectedFiles[fileIndex].isProcessing
        /\ ~selectedFiles[fileIndex].isUploaded
        /\ Len(uploads) < MaxFiles
        /\ selectedFiles' = MapAt(selectedFiles, fileIndex,
               [isProcessing |-> TRUE, processError |-> FALSE])
        /\ uploads' = Append(uploads,
               [fileIndex |-> fileIndex, name |-> selectedFiles[fileIndex].name])
        /\ UNCHANGED <<deltaTableResults, deltaTableLoading, deltaTableError,
                       processedSessionFiles, showDeltaTableResults, writeRequests, writesIssued,
                       chains, deltaTable>>
        /\ UNCHANGED <<failedWrites, beVars, rVars, pgVars>>

\* the upload answers with uploaded_files[0].path: entry fileIndex of the
\* current list becomes uploaded and stops processing
UploadResolve ==
    \E n \in DOMAIN uploads :
        /\ uploads' = RemoveAt(uploads, n)
        /\ selectedFiles' = MapAt(selectedFiles, uploads[n].fileIndex,
               [isUploaded |-> TRUE, ucPath |-> UcPath(uploads[n].name),
                redactionSupported |-> redaction_supported(uploads[n].name),
                isProcessing |-> FALSE])
        /\ UNCHANGED <<deltaTableResults, deltaTableLoading, deltaTableError,
                       processedSessionFiles, showDeltaTableResults, writeRequests, writesIssued,
                       chains, deltaTable>>
        /\ UNCHANGED <<failedWrites, beVars, rVars, pgVars>>

\* the upload fails (catch branch)
UploadReject ==
    \E n \in DOMAIN uploads :
        /\ uploads' = RemoveAt(uploads, n)
        /\ selectedFiles' = MapAt(selectedFiles, uploads[n].fileIndex,
               [isProcessing |-> FALSE, processError |-> TRUE])
        /\ UNCHANGED <<deltaTableResults, deltaTableLoading, deltaTableError,
                       processedSessionFiles, showDeltaTableResults, writeRequests, writesIssued,
                       chains, deltaTable>>
        /\ UNCHANGED <<failedWrites, beVars, rVars, pgVars>>

----------------------------------------------------------------------------
(* Frontend: write to the Delta table and poll for its rows *)

\* the write request sent for filePaths, numbered in order of sending
WriteRequest(filePaths) == [id |-> writesIssued + 1, file_paths |-> filePaths]

\* Write to Delta Table button: handleWriteToDeltaTable calls writeToDeltaTable,
\* which sends the write request without awaiting it, resets the result
\* state and arms the first poll
handleWriteToDeltaTable ==
    /\ ~WriteButtonDisabled
    /\ writesIssued < MaxSubmits
    /\ LET filePaths == UploadedPaths IN
        IF filePaths = {}
        THEN /\ deltaTableError' = "noUploadedFiles"
             /\ UNCHANGED <<writeRequests, writesIssued, processedSessionFiles, showDeltaTableResults,
                            deltaTableResults, deltaTableLoading, chains>>
        ELSE /\ writeRequests' = writeRequests \cup {WriteRequest(filePaths)}
             /\ writesIssued' = writesIssued + 1
             /\ processedSessionFiles' = filePaths
             /\ showDeltaTableResults' = TRUE
             /\ deltaTableResults' = {}
             /\ deltaTableError' = "processing"
             /\ deltaTableLoading' = TRUE
             /\ chains' = chains \cup
                    {[job |-> writesIssued + 1, filePaths |-> filePaths,
                      attemptCount |-> 0, pc |-> "timer", queries |-> 0]}
    /\ UNCHANGED <<selectedFiles, uploads, deltaTable>>
    /\ UNCHANGED <<failedWrites, beVars, rVars, pgVars>>

\* the chain c with its position and attempt count replaced
Step(c, pc, n) == [c EXCEPT !.pc = pc, !.attemptCount = n]

\* the chain c sends a query request: the requests it has sent are counted,
\* up to one more than maxAttempts
SendQuery(c) ==
    [c EXCEPT !.pc = "query",
              !.queries = IF @ <= maxAttempts THEN @ + 1 ELSE @]

\* a poll timer fires, pollForResults(attemptCount) runs: give up after
\* maxAttempts, else send the query
PollFireOf(job) ==
    \E c \in chains :
        /\ c.job = job
        /\ c.pc = "timer"
        /\ IF c.attemptCount >= maxAttempts
           THEN /\ deltaTableError' = "takingLonger"
                /\ deltaTableLoading' = FALSE
                /\ chains' = chains \ {c}
           ELSE /\ chains' = (chains \ {c}) \cup {SendQuery(c)}
                /\ UNCHANGED <<deltaTableError, deltaTableLoading>>
        /\ UNCHANGED <<selectedFiles, uploads, deltaTableResults,
                       processedSessionFiles, showDeltaTableResults,
                       writeRequests, writesIssued, deltaTable>>
        /\ UNCHANGED <<failedWrites, beVars, rVars, pgVars>>

PollFire == \E job \in 1..MaxSubmits : PollFireOf(job)

\* rows the query endpoint returns for file_paths
QueryData(filePaths) == deltaTable \cap filePaths

\* a retry that does not count the attempt
Retry_SameAttempt(c) ==
    /\ chains' = (chains \ {c}) \cup {Step(c, "timer", c.attemptCount)}
    /\ UNCHANGED <<writeRequests, writesIssued>>

\* a retry that sends the write request again
Retry_Resubmits(c) ==
    /\ chains' = (chains \ {c}) \cup {Step(c, "timer", c.attemptCount + 1)}
    /\ IF writesIssued < MaxSubmits
       THEN /\ writeRequests' = writeRequests \cup {WriteRequest(c.filePaths)}
            /\ writesIssued' = writesIssued + 1
       ELSE UNCHANGED <<writeRequests, writesIssued>>

\* setTimeout(() => pollForResults(attemptCount + 1), 10000)
Retry(c) ==
    /\ chains' = (chains \ {c}) \cup {Step(c, "timer", c.attemptCount + 1)}
    /\ UNCHANGED <<writeRequests, writesIssued>>

\* the query resolves: rows end the chain, no rows re-arm the timer
QueryResolveOf(job) ==
    \E c \in chains :
        /\ c.job = job
        /\ c.pc = "query"
        /\ LET data == QueryData(c.filePaths) IN
            IF data # {}
            THEN /\ deltaTableResults' = data
                 /\ deltaTableError' = "null"
                 /\ deltaTableLoading' = FALSE
                 /\ chains' = chains \ {c}
                 /\ UNCHANGED <<writeRequests, writesIssued>>
            ELSE /\ Retry(c)
                 /\ UNCHANGED <<deltaTableResults, deltaTableError, deltaTableLoading>>
        /\ UNCHANGED <<selectedFiles, uploads, processedSessionFiles,
                       showDeltaTableResults, deltaTable>>
        /\ UNCHANGED <<failedWrites, beVars, rVars, pgVars>>

QueryResolve == \E job \in 1..MaxSubmits : QueryResolveOf(job)

\* a failed query that ends the job with an error
QueryRejectOf_EndsJob(job) ==
    \E c \in chains :
        /\ c.job = job
        /\ c.pc = "query"
        /\ chains' = chains \ {c}
        /\ deltaTableError' = "queryFailed"
        /\ deltaTableLoading' = FALSE
        /\ UNCHANGED <<selectedFiles, uploads, deltaTableResults, processedSessionFiles,
                       showDeltaTableResults, writeRequests, writesIssued, deltaTable>>
        /\ UNCHANGED <<failedWrites, beVars, rVars, pgVars>>

\* the query rejects: polling continues
QueryRejectOf(job) ==
    \E c \in chains :
        /\ c.job = job
        /\ c.pc = "query"
        /\ Retry(c)
        /\ UNCHANGED <<selectedFiles, uploads, deltaTableResults, deltaTableLoading,
                       deltaTableError, processedSessionFiles, showDeltaTableResults,
                       deltaTable>>
        /\ UNCHANGED <<failedWrites, beVars, rVars, pgVars>>

QueryReject == \E job \in 1..MaxSubmits : QueryRejectOf(job)

\* the backing operation of a write request completes: its rows are in the
\* table; the page only logs the response
WriteComplete ==
    \E w \in writeRequests :
        /\ writeRequests' = writeRequests \ {w}
        /\ deltaTable' = deltaTable \cup w.file_paths
        /\ UNCHANGED <<selectedFiles, uploads, deltaTableResults, deltaTableLoading,
                       deltaTableError, processedSessionFiles, showDeltaTableResults,
                       chains>>
        /\ UNCHANGED <<writesIssued, failedWrites, beVars, rVars, pgVars>>

\* a failed write request that clears the loading flag and leaves the
\* chain polling
WriteFail_ClearsLoading ==
    \E w \in writeRequests :
        /\ writeRequests' = writeRequests \ {w}
        /\ deltaTableLoading' = FALSE
        /\ failedWrites' = failedWrites \cup {w.id}
        /\ UNCHANGED <<selectedFiles, uploads, deltaTableResults, deltaTableError,
                       processedSessionFiles, showDeltaTableResults, chains, deltaTable>>
        /\ UNCHANGED <<writesIssued, beVars, rVars, pgVars>>

\* a failed write request that ends the job with an error
WriteFail_EndsJob ==
    \E w \in writeRequests :
        /\ writeRequests' = writeRequests \ {w}
        /\ chains' = {c \in chains : c.job # w.id}
        /\ deltaTableError' = "writeFailed"
        /\ deltaTableLoading' = FALSE
        /\ failedWrites' = failedWrites \cup {w.id}
        /\ UNCHANGED <<selectedFiles, uploads, deltaTableResults, processedSessionFiles,
                       showDeltaTableResults, deltaTable>>
        /\ UNCHANGED <<writesIssued, beVars, rVars, pgVars>>

\* the write request fails or times out: the page only logs the error; the
\* failure is remembered here, the page keeps no trace of it
WriteFail ==
    \E w \in writeRequests :
        /\ writeRequests' = writeRequests \ {w}
        /\ UNCHANGED <<selectedFiles, uploads, deltaTableResults, deltaTableLoading,
                       deltaTableError, processedSessionFiles, showDeltaTableResults,
                       chains, deltaTable>>
        /\ failedWrites' = failedWrites \cup {w.id}
        /\ UNCHANGED <<writesIssued, beVars, rVars, pgVars>>

UiNext ==
    \/ handleFileChange
    \/ handleProcessFile
    \/ UploadResolve
    \/ UploadReject
    \/ handleWriteToDeltaTable
    \/ PollFire
    \/ QueryResolve
    \/ QueryReject
    \/ WriteComplete
    \/ WriteFail

----------------------------------------------------------------------------
(* Redaction Engine: the substitution pass over one unit of text.          *)
(* Text is a sequence of one-character strings.                            *)

\* characters in code-point order
CharTable ==
    <<" ", ".", "C", "D", "E", "I", "L", "N", "O", "P", "R", "T", "U",
      "[", "]", "a", "b", "c", "l", "n", "o", "x">>

CharCode(ch) == CHOOSE i \in DOMAIN CharTable : CharTable[i] = ch

\* lexicographic order on texts
RECURSIVE LexLess(_, _)
LexLess(s, t) ==
    IF t = <<>> THEN FALSE
    ELSE IF s = <<>> THEN TRUE
    ELSE IF s[1] # t[1] THEN CharCode(s[1]) < CharCode(t[1])
    ELSE LexLess(Tail(s), Tail(t))

\* shortest key first
KeyBefore_ShortestFirst(k1, k2) ==
    \/ Len(k1) < Len(k2)
    \/ Len(k1) = Len(k2) /\ LexLess(k1, k2)

\* longest key first, keys of one length in the order they come
KeyBefore_LengthOnly(k1, k2) == Len(k1) > Len(k2)

\* k1 is applied before k2: descending length, ties lexicographic
KeyBefore(k1, k2) ==
    \/ Len(k1) > Len(k2)
    \/ Len(k1) = Len(k2) /\ LexLess(k1, k2)

\* the orders in which a mapping with these keys can present them
Orders(keys) == {o \in [1..Cardinality(keys) -> keys] : Range(o) = keys}

\* the order in which the EntityMap of a call presents its keys
IterationOrder(keys) == CHOOSE o \in Orders(keys) : TRUE

\* k put into a sorted sequence, before the first key it goes before
InsertKey(k, sorted) ==
    LET later == {i \in DOMAIN sorted : KeyBefore(k, sorted[i])}
        at == IF later = {} THEN Len(sorted) + 1
              ELSE CHOOSE i \in later : \A j \in later : i <= j
    IN SubSeq(sorted, 1, at - 1) \o <<k>> \o SubSeq(sorted, at, Len(sorted))

\* the presented keys sorted into the order they are applied
RECURSIVE SortOrder(_)
SortOrder(order) ==
    IF order = <<>> THEN <<>>
    ELSE InsertKey(order[Len(order)], SortOrder(SubSeq(order, 1, Len(order) - 1)))

\* the keys in the order they are applied
SortKeys(keys) == SortOrder(IterationOrder(keys))

\* a unit under substitution: original characters with their position, and
\* inert tokens standing for a replaced key that started at pos
OrigPiece(ch, pos) == [orig |-> TRUE, ch |-> ch, pos |-> pos, key |-> <<>>]
TokenPiece(key, pos) == [orig |-> FALSE, ch |-> "", pos |-> pos, key |-> key]

InitPieces(text) == [i \in DOMAIN text |-> OrigPiece(text[i], i)]

\* a match that also reads the one-character tokens already inserted
MatchAt_ScansTokens(pieces, i, k) ==
    /\ i + Len(k) - 1 <= Len(pieces)
    /\ \A j \in 1..Len(k) :
           LET p == pieces[i + j - 1] IN
           IF p.orig THEN p.ch = k[j] ELSE rMap[p.key] = <<k[j]>>

\* key k matches the original characters starting at piece i
MatchAt(pieces, i, k) ==
    /\ i + Len(k) - 1 <= Len(pieces)
    /\ \A j \in 1..Len(k) : pieces[i + j - 1].orig /\ pieces[i + j - 1].ch = k[j]

\* replace only the first match of k from piece i on
RECURSIVE ApplyKey_FirstOnly(_, _, _)
ApplyKey_FirstOnly(pieces, i, k) ==
    IF i > Len(pieces) THEN pieces
    ELSE IF MatchAt(pieces, i, k)
         THEN SubSeq(pieces, 1, i - 1)
                 \o <<TokenPiece(k, pieces[i].pos)>>
                 \o SubSeq(pieces, i + Len(k), Len(pieces))
         ELSE ApplyKey_FirstOnly(pieces, i + 1, k)

\* replace every match of k from piece i on, left to right; replaced text is
\* not scanned again
RECURSIVE ApplyKey(_, _, _)
ApplyKey(pieces, i, k) ==
    IF i > Len(pieces) THEN pieces
    ELSE IF MatchAt(pieces, i, k)
         THEN ApplyKey(SubSeq(pieces, 1, i - 1)
                          \o <<TokenPiece(k, pieces[i].pos)>>
                          \o SubSeq(pieces, i + Len(k), Len(pieces)),
                       i + 1, k)
         ELSE ApplyKey(pieces, i + 1, k)

\* all matches of one key before the next key
RECURSIVE ApplyKeys(_, _)
ApplyKeys(pieces, keySeq) ==
    IF keySeq = <<>> THEN pieces
    ELSE ApplyKeys(ApplyKey(pieces, 1, Head(keySeq)), Tail(keySeq))

\* the text the pieces stand for
RECURSIVE Flatten(_, _)
Flatten(pieces, entityMap) ==
    IF pieces = <<>> THEN <<>>
    ELSE (IF Head(pieces).orig THEN <<Head(pieces).ch>>
          ELSE entityMap[Head(pieces).key])
         \o Flatten(Tail(pieces), entityMap)

\* one redaction pass over text
Redact(text, entityMap) ==
    LET pieces == ApplyKeys(InitPieces(text), SortKeys(DOMAIN entityMap))
        applied == {pieces[i].key : i \in {j \in DOMAIN pieces : ~pieces[j].orig}}
    IN [pieces |-> pieces,
        text |-> Flatten(pieces, entityMap),
        appliedEntities |-> applied,
        status |-> IF applied = {} THEN "no_entities_found" ELSE "redacted"]

\* key k occurs in text at position p
Occurs(k, text, p) ==
    /\ p >= 1
    /\ p + Len(k) - 1 <= Len(text)
    /\ SubSeq(text, p, p + Len(k) - 1) = k

OccursIn(k, text) == \E p \in 1..Len(text) : Occurs(k, text, p)

----------------------------------------------------------------------------
(* Inputs of the substitution pass *)

TextChars == {"a", "b", "x"}
KeyChars == {"a", "b"}
Tokens == {<<"x", "b">>, <<"a">>}

SeqsUpTo(chars, n) == UNION {[1..m -> chars] : m \in 0..n}

Texts == SeqsUpTo(TextChars, MaxLen)
Keys == SeqsUpTo(KeyChars, MaxKeyLen) \ {<<>>}

EntityMaps ==
    UNION {[ks -> Tokens] : ks \in {s \in SUBSET Keys : Cardinality(s) \in 1..MaxKeys}}

CocaColaInc == <<"C", "o", "c", "a", " ", "C", "o", "l", "a", " ", "I", "n", "c", ".">>
CocaCola == <<"C", "o", "c", "a", " ", "C", "o", "l", "a">>
Cola == <<"C", "o", "l", "a">>
ClientToken == <<"[", "C", "L", "I", "E", "N", "T", "]">>
ProductToken == <<"[", "P", "R", "O", "D", "U", "C", "T", "]">>
CocaColaMap == (CocaCola :> ClientToken) @@ (Cola :> ProductToken)

NoResult == [pieces |-> <<>>, text |-> <<>>, appliedEntities |-> {}, status |-> "none"]

RIdle ==
    /\ rText = <<>>
    /\ rMap = <<>>
    /\ rOut1 = NoResult
    /\ rOut2 = NoResult
    /\ rPc = "idle"

RInit ==
    /\ \/ rText \in Texts /\ rMap \in EntityMaps
       \/ rText = CocaColaInc /\ rMap = CocaColaMap
    /\ rOut1 = NoResult
    /\ rOut2 = NoResult
    /\ rPc = "input"

\* redact(x, M)
RedactOnce ==
    /\ rPc = "input"
    /\ rOut1' = Redact(rText, rMap)
    /\ rPc' = "once"
    /\ UNCHANGED <<rText, rMap, rOut2, uiVars, beVars, pgVars>>

\* redact(redact(x, M).bytes, M)
RedactAgain ==
    /\ rPc = "once"
    /\ rOut2' = Redact(rOut1.text, rMap)
    /\ rPc' = "twice"
    /\ UNCHANGED <<rText, rMap, rOut1, uiVars, beVars, pgVars>>

RNext ==
    \/ RedactOnce
    \/ RedactAgain

----------------------------------------------------------------------------
(* Backend: POST /api/redact-document *)

\* file_path.lower(), on the extensions used here
Lower(ext) == IF ext = ".MD" THEN ".md" ELSE ext

\* detect_file_format: the format of the path's extension
detect_file_format(path) ==
    LET ext == Lower(path[2]) IN
    CASE ext \in {".md", ".markdown"} -> "markdown"
      [] ext \in {".xlsx", ".xls"}    -> "excel"
      [] ext \in {".pptx", ".ppt"}    -> "powerpoint"
      [] ext = ".pdf"                 -> "pdf"
      [] OTHER                        -> "unknown"

TextMarkdown == "text/markdown"
SpreadsheetSheet == "application/vnd.openxmlformats-officedocument.spreadsheetml.sheet"
PresentationDeck == "application/vnd.openxmlformats-officedocument.presentationml.presentation"
ApplicationPdf == "application/pdf"
NoMime == ""

FORMAT_HANDLERS == {"markdown", "excel", "powerpoint"}

\* can_handle, its test of the path: file_path.lower().endswith(...)
CanHandleExtension(handler, path) ==
    CASE handler = "markdown"   -> Lower(path[2]) = ".md"
      [] handler = "excel"      -> Lower(path[2]) \in {".xlsx", ".xls"}
      [] handler = "powerpoint" -> Lower(path[2]) \in {".pptx", ".ppt"}

\* can_handle, its test of the declared type
CanHandleMime(handler, mime_type) ==
    CASE handler = "markdown"   -> mime_type = TextMarkdown
      [] handler = "excel"      -> mime_type \in {SpreadsheetSheet}
      [] handler = "powerpoint" -> mime_type = PresentationDeck

\* handler.can_handle(file_path, mime_type)
can_handle(handler, path, mime_type) ==
    CanHandleExtension(handler, path) \/ CanHandleMime(handler, mime_type)

\* get_format_handler: FORMAT_HANDLERS.get(format_type)
get_format_handler(format_type) ==
    IF format_type \in FORMAT_HANDLERS THEN format_type ELSE "None"

EmptyMap == <<>>

\* a document as the endpoint meets it: its path, the MIME type declared
\* for it at upload, the state of its row in the
\* Delta table, the text of the file, the EntityMap that
\* extract_entities_for_redaction returns for it, and the error its handler
\* raises, if any
Doc(name, ext, mime, row, text, entities, fault) ==
    [path |-> <<name, ext>>, mime |-> mime, row |-> row, text |-> text,
     entities |-> entities, fault |-> fault]

Docs ==
    { Doc("a", ".md",   TextMarkdown,     "content", <<"a", "b">>, <<"a">> :> <<"x">>, "none"),
      Doc("n", ".MD",   PresentationDeck, "content", <<"b">>,      EmptyMap,           "none"),
      Doc("m", ".xlsx", SpreadsheetSheet, "content", <<"a", "a">>, <<"b">> :> <<"x">>, "none"),
      Doc("z", ".zip",  NoMime,           "content", <<"a">>,      <<"a">> :> <<"x">>, "none"),
      Doc("t", ".txt",  TextMarkdown,     "content", <<"a">>,      <<"a">> :> <<"x">>, "none"),
      Doc("p", ".pdf",  ApplicationPdf,   "content", <<"a">>,      <<"a">> :> <<"x">>, "none"),
      Doc("e", ".xls",  NoMime,           "missing", <<"a">>,      <<"a">> :> <<"x">>, "none"),
      Doc("k", ".pptx", PresentationDeck, "blank",   <<>>,         EmptyMap,           "none"),
      Doc("c", ".md",   TextMarkdown,     "content", <<"a">>,      <<"a">> :> <<"x">>, "ParseError"),
      Doc("s", ".ppt",  NoMime,           "content", <<"a">>,      <<"a">> :> <<"x">>, "SerializationError") }

Batches == UNION {[1..n -> Docs] : n \in 0..MaxBatch}

Requests == [file_paths : Batches, w : BOOLEAN, current_warehouse_id : BOOLEAN]

BeInit ==
    /\ request \in Requests
    /\ docIndex = 0
    /\ redacted_files = <<>>
    /\ response = "running"

\* the document the loop is at
CurrentDoc == request.file_paths[docIndex]

InLoop == response = "running" /\ docIndex \in DOMAIN request.file_paths

HasHandler(doc) == get_format_handler(detect_file_format(doc.path)) # "None"

\* handler.redact_content(original_file_path, entities_to_redact): the text
\* of the redacted file
redact_content(doc) == Redact(doc.text, doc.entities).text

\* the record appended for a document without entities
NoEntitiesResult(doc) ==
    [original_file |-> doc.path, redacted_file |-> doc.path, entities_count |-> 0,
     entities |-> EmptyMap, status |-> "no_entities_found",
     format |-> detect_file_format(doc.path), output |-> doc.text]

\* the status reported after handler.redact_content returned
RedactedStatus(doc) == "redacted"

\* the record appended for a redacted document
RedactedResult(doc) ==
    [original_file |-> doc.path, redacted_file |-> <<"redacted", doc.path>>,
     entities_count |-> Cardinality(DOMAIN doc.entities),
     entities |-> doc.entities, status |-> RedactedStatus(doc),
     format |-> detect_file_format(doc.path), output |-> redact_content(doc)]

\* the checks before the try block
StartCall ==
    /\ response = "running"
    /\ docIndex = 0
    /\ IF ~request.w \/ ~request.current_warehouse_id
       THEN response' = "http500" /\ UNCHANGED docIndex
       ELSE IF request.file_paths = <<>>
       THEN response' = "http400" /\ UNCHANGED docIndex
       ELSE docIndex' = 1 /\ UNCHANGED response
    /\ UNCHANGED <<request, redacted_files, uiVars, rVars, pgVars>>

\* if not handler: continue
SkipNoHandler ==
    /\ InLoop
    /\ ~HasHandler(CurrentDoc)
    /\ docIndex' = docIndex + 1
    /\ UNCHANGED <<request, redacted_files, response, uiVars, rVars, pgVars>>

\* if not result.result or not result.result.data_array: continue
SkipNoRow ==
    /\ InLoop
    /\ HasHandler(CurrentDoc)
    /\ CurrentDoc.row = "missing"
    /\ docIndex' = docIndex + 1
    /\ UNCHANGED <<request, redacted_files, response, uiVars, rVars, pgVars>>

\* if not content or not content.strip(): continue
SkipBlankContent ==
    /\ InLoop
    /\ HasHandler(CurrentDoc)
    /\ CurrentDoc.row = "blank"
    /\ docIndex' = docIndex + 1
    /\ UNCHANGED <<request, redacted_files, response, uiVars, rVars, pgVars>>

ReachesEntities(doc) == HasHandler(doc) /\ doc.row = "content"

\* if not entities_to_redact: append no_entities_found
AppendNoEntities ==
    /\ InLoop
    /\ ReachesEntities(CurrentDoc)
    /\ CurrentDoc.entities = EmptyMap
    /\ redacted_files' = Append(redacted_files, NoEntitiesResult(CurrentDoc))
    /\ docIndex' = docIndex + 1
    /\ UNCHANGED <<request, response, uiVars, rVars, pgVars>>

ReachesRedact(doc) == ReachesEntities(doc) /\ doc.entities # EmptyMap

\* handler.redact_content returns: append redacted
AppendRedacted ==
    /\ InLoop
    /\ ReachesRedact(CurrentDoc)
    /\ CurrentDoc.fault = "none"
    /\ redacted_files' = Append(redacted_files, RedactedResult(CurrentDoc))
    /\ docIndex' = docIndex + 1
    /\ UNCHANGED <<request, response, uiVars, rVars, pgVars>>

\* handler.redact_content raises: except Exception -> HTTPException(500)
RaiseInRedact ==
    /\ InLoop
    /\ ReachesRedact(CurrentDoc)
    /\ CurrentDoc.fault # "none"
    /\ response' = "http500"
    /\ UNCHANGED <<request, docIndex, redacted_files, uiVars, rVars, pgVars>>

\* return {"success": True, ..., "redacted_files": redacted_files}
ReturnOk ==
    /\ response = "running"
    /\ docIndex = Len(request.file_paths) + 1
    /\ response' = "ok"
    /\ UNCHANGED <<request, docIndex, redacted_files, uiVars, rVars, pgVars>>

BeNext ==
    \/ StartCall
    \/ SkipNoHandler
    \/ SkipNoRow
    \/ SkipBlankContent
    \/ AppendNoEntities
    \/ AppendRedacted
    \/ RaiseInRedact
    \/ ReturnOk

BeIdle ==
    /\ request = <<>>
    /\ docIndex = 0
    /\ redacted_files = <<>>
    /\ response = "idle"

----------------------------------------------------------------------------
(* Frontend: preview, redaction and export *)

PgInit ==
    /\ previews = <<>>
    /\ documentRedactionLoading = FALSE
    /\ documentRedactionError = "null"
    /\ documentRedactionSuccess = FALSE
    /\ redactedFiles = {}
    /\ redactRequests = <<>>
    /\ exportLoading = FALSE
    /\ exportError = "null"
    /\ exportSuccess = FALSE
    /\ exportInfo = "null"
    /\ exportRequests = <<>>

\* no call of upload_to_uc
UpIdle ==
    /\ upRequest = <<>>
    /\ upIndex = 0
    /\ uploaded_files = <<>>
    /\ upResponse = "idle"

\* no call of export_document
NoExport ==
    /\ xRequest = <<>>
    /\ xPc = "idle"
    /\ xContentRead = FALSE
    /\ xResponse = "idle"

\* no call of either endpoint
XIdle == NoExport /\ UpIdle

redactVars == <<documentRedactionLoading, documentRedactionError,
                documentRedactionSuccess, redactedFiles, redactRequests>>

exportVars == <<exportLoading, exportError, exportSuccess, exportInfo, exportRequests>>

\* a click on a file of the list: a text file is read first, the preview of
\* any other file is set at once; a file that has its preview is left alone
handleFilePreview ==
    \E fileIndex \in DOMAIN selectedFiles :
        LET file == selectedFiles[fileIndex] IN
        /\ file.preview = NoPreview
        /\ IF ReadsText(file.name)
           THEN /\ Len(previews) < MaxPreviews
                /\ previews' = Append(previews, [fileIndex |-> fileIndex, name |-> file.name])
                /\ UNCHANGED selectedFiles
           ELSE /\ selectedFiles' = MapAt(selectedFiles, fileIndex,
                       [preview |-> PreviewOf(file.name)])
                /\ UNCHANGED previews
        /\ UNCHANGED <<uploads, deltaTableResults, deltaTableLoading, deltaTableError,
                       processedSessionFiles, showDeltaTableResults, writeRequests,
                       writesIssued, chains, deltaTable, failedWrites>>
        /\ UNCHANGED <<beVars, rVars, xVars, redactVars, exportVars>>

\* file.text() resolves: entry fileIndex of the current list gets the preview
PreviewResolve ==
    \E n \in DOMAIN previews :
        /\ previews' = RemoveAt(previews, n)
        /\ selectedFiles' = MapAt(selectedFiles, previews[n].fileIndex,
               [preview |-> PreviewOf(previews[n].name)])
        /\ UNCHANGED <<uploads, deltaTableResults, deltaTableLoading, deltaTableError,
                       processedSessionFiles, showDeltaTableResults, writeRequests,
                       writesIssued, chains, deltaTable, failedWrites>>
        /\ UNCHANGED <<beVars, rVars, xVars, redactVars, exportVars>>

\* file.text() rejects: only the page's error banner is set
PreviewReject ==
    \E n \in DOMAIN previews :
        /\ previews' = RemoveAt(previews, n)
        /\ UNCHANGED <<uiVars, beVars, rVars, xVars, redactVars, exportVars>>

\* the paths of every uploaded file, redaction supported or not
RedactablePaths_AllUploaded == UploadedPaths

\* selectedFiles.filter(f => f.isUploaded && f.ucPath && f.redactionSupported).map(f => f.ucPath)
RedactablePaths ==
    {selectedFiles[i].ucPath : i \in {j \in DOMAIN selectedFiles :
        /\ selectedFiles[j].isUploaded
        /\ selectedFiles[j].ucPath # NoPath
        /\ selectedFiles[j].redactionSupported}}

\* the button guard without its loading test
RedactButtonDisabled_NoLoadingTest ==
    \/ deltaTableResults = {}
    \/ {i \in DOMAIN selectedFiles :
            selectedFiles[i].isUploaded /\ selectedFiles[i].redactionSupported} = {}

\* disabled={documentRedactionLoading || deltaTableResults.length === 0 ||
\*           selectedFiles.filter(f => f.isUploaded && f.redactionSupported).length === 0}
RedactButtonDisabled ==
    \/ documentRedactionLoading
    \/ deltaTableResults = {}
    \/ {i \in DOMAIN selectedFiles :
            selectedFiles[i].isUploaded /\ selectedFiles[i].redactionSupported} = {}

\* the redaction card is rendered
RedactCardShown ==
    /\ deltaTableResults # {}
    /\ showDeltaTableResults
    /\ \E i \in DOMAIN selectedFiles :
           selectedFiles[i].isUploaded /\ selectedFiles[i].redactionSupported

\* Redact Documents button: the checks that throw end the handler at once,
\* else the request is sent and awaited
handleRedactDocuments ==
    /\ RedactCardShown
    /\ ~RedactButtonDisabled
    /\ Len(redactRequests) < MaxRedacts
    /\ documentRedactionSuccess' = FALSE
    /\ LET filePaths == RedactablePaths IN
        IF filePaths = {} \/ deltaTableResults = {}
        THEN /\ documentRedactionError' =
                    IF filePaths = {} THEN "noRedactableFiles" ELSE "noDocumentData"
             /\ redactedFiles' = {}
             /\ documentRedactionLoading' = FALSE
             /\ UNCHANGED redactRequests
        ELSE /\ documentRedactionError' = "null"
             /\ documentRedactionLoading' = TRUE
             /\ redactRequests' = Append(redactRequests, [file_paths |-> filePaths])
             /\ UNCHANGED redactedFiles
    /\ UNCHANGED <<uiVars, beVars, rVars, xVars, previews, exportVars>>

\* the answers of /api/redact-document to a request for file_paths
RedactResponses(file_paths) == [success : {TRUE}, redacted_files : SUBSET file_paths]

\* the redact request resolves
RedactResolve ==
    \E n \in DOMAIN redactRequests :
        \E result \in RedactResponses(redactRequests[n].file_paths) :
            /\ redactRequests' = RemoveAt(redactRequests, n)
            /\ IF result.success
               THEN /\ redactedFiles' = result.redacted_files
                    /\ documentRedactionSuccess' = TRUE
                    /\ UNCHANGED documentRedactionError
               ELSE /\ documentRedactionError' = "noDocumentsRedacted"
                    /\ redactedFiles' = {}
                    /\ UNCHANGED documentRedactionSuccess
            /\ documentRedactionLoading' = FALSE
            /\ UNCHANGED <<uiVars, beVars, rVars, xVars, previews, exportVars>>

\* the redact request rejects (catch branch)
RedactReject ==
    \E n \in DOMAIN redactRequests :
        /\ redactRequests' = RemoveAt(redactRequests, n)
        /\ documentRedactionError' = "requestFailed"
        /\ redactedFiles' = {}
        /\ documentRedactionLoading' = FALSE
        /\ UNCHANGED documentRedactionSuccess
        /\ UNCHANGED <<uiVars, beVars, rVars, xVars, previews, exportVars>>

\* disabled={exportLoading || deltaTableResults.length === 0}
ExportButtonDisabled == exportLoading \/ deltaTableResults = {}

\* the export card is rendered
ExportCardShown == deltaTableResults # {} /\ showDeltaTableResults

\* Export button
handleExportDocument ==
    /\ ExportCardShown
    /\ ~ExportButtonDisabled
    /\ Len(exportRequests) < MaxExports
    /\ exportSuccess' = FALSE
    /\ LET filePaths == UploadedPaths IN
        IF filePaths = {} \/ deltaTableResults = {}
        THEN /\ exportError' = IF filePaths = {} THEN "noUploadedFiles" ELSE "noDocumentData"
             /\ exportLoading' = FALSE
             /\ UNCHANGED exportRequests
        ELSE /\ exportError' = "null"
             /\ exportLoading' = TRUE
             /\ exportRequests' = Append(exportRequests, [file_paths |-> filePaths])
    /\ UNCHANGED exportInfo
    /\ UNCHANGED <<uiVars, beVars, rVars, xVars, previews, redactVars>>

\* the export request resolves
ExportResolve ==
    \E n \in DOMAIN exportRequests : \E success \in {TRUE} :
        /\ exportRequests' = RemoveAt(exportRequests, n)
        /\ IF success
           THEN /\ exportInfo' = exportRequests[n].file_paths
                /\ exportSuccess' = TRUE
                /\ UNCHANGED exportError
           ELSE /\ exportError' = "exportFailed"
                /\ UNCHANGED <<exportInfo, exportSuccess>>
        /\ exportLoading' = FALSE
        /\ UNCHANGED <<uiVars, beVars, rVars, xVars, previews, redactVars>>

\* the export request rejects (catch branch)
ExportReject ==
    \E n \in DOMAIN exportRequests :
        /\ exportRequests' = RemoveAt(exportRequests, n)
        /\ exportError' = "requestFailed"
        /\ exportLoading' = FALSE
        /\ UNCHANGED <<exportInfo, exportSuccess>>
        /\ UNCHANGED <<uiVars, beVars, rVars, xVars, previews, redactVars>>

FilesNext ==
    \/ handleFileChangeMultiple
    \/ handleProcessFileEach
    \/ UploadResolve
    \/ UploadReject
    \/ handleFilePreview
    \/ PreviewResolve
    \/ PreviewReject

\* the file list with several files, their uploads, and the write with its
\* polling chain
SubmitNext ==
    \/ handleFileChangeMultiple
    \/ handleProcessFile
    \/ UploadResolve
    \/ UploadReject
    \/ handleWriteToDeltaTable
    \/ PollFire
    \/ QueryResolve
    \/ QueryReject
    \/ WriteComplete
    \/ WriteFail

PageNext ==
    \/ handleFileChangeMarkdown
    \/ handleProcessFile
    \/ UploadResolve
    \/ UploadReject
    \/ handleWriteToDeltaTable
    \/ PollFire
    \/ QueryResolve
    \/ QueryReject
    \/ WriteComplete
    \/ WriteFail
    \/ handleRedactDocuments
    \/ RedactResolve
    \/ RedactReject
    \/ handleExportDocument
    \/ ExportResolve
    \/ ExportReject

\* the page with the markdown file and the PDF chosen together and its
\* redaction handler; the write request and the queries do not fail
PairNext ==
    \/ handleFileChangePair
    \/ handleProcessFile
    \/ UploadResolve
    \/ UploadReject
    \/ handleWriteToDeltaTable
    \/ PollFire
    \/ QueryResolve
    \/ WriteComplete
    \/ handleRedactDocuments
    \/ RedactResolve
    \/ RedactReject

\* the page with either file to choose, one at a time
SessionNext ==
    \/ handleFileChange
    \/ handleProcessFile
    \/ UploadResolve
    \/ UploadReject
    \/ handleWriteToDeltaTable
    \/ PollFire
    \/ QueryResolve
    \/ QueryReject
    \/ WriteComplete
    \/ WriteFail
    \/ handleRedactDocuments
    \/ RedactResolve
    \/ RedactReject
    \/ handleExportDocument
    \/ ExportResolve
    \/ ExportReject

----------------------------------------------------------------------------
(* Backend: POST /api/export-document *)

EXPORTERS == {"md", "xlsx", "pptx"}

\* the keys of EXPORTERS only
IsExportFormat_Unchecked(export_format) == TRUE

\* request.export_format in EXPORTERS
IsExportFormat(export_format) == export_format \in EXPORTERS

ExportFormats == {"md", "xlsx", "pptx", "pdf", "docx"}

ExportPaths == {<<"/Volumes", "a.md">>, <<"/Volumes", "m.xlsx">>}

\* a call as the endpoint meets it: the request, whether the Databricks
\* client is configured, the paths that have a row in the table, and the
\* step that raises, if any
ExportCalls ==
    [export_format : ExportFormats, file_paths : SUBSET ExportPaths,
     w : BOOLEAN, rows : SUBSET ExportPaths, fault : {"none", "query", "export"}]

XInit ==
    /\ xRequest \in ExportCalls
    /\ xPc = "checks"
    /\ xContentRead = FALSE
    /\ xResponse = "running"

\* the checks before the try block
ExportChecks ==
    /\ xPc = "checks"
    /\ IF ~xRequest.w
       THEN xResponse' = "http500" /\ xPc' = "done"
       ELSE IF ~IsExportFormat(xRequest.export_format)
       THEN xResponse' = "http400" /\ xPc' = "done"
       ELSE xPc' = "query" /\ UNCHANGED xResponse
    /\ UNCHANGED <<xRequest, xContentRead>>
    /\ UNCHANGED <<uiVars, beVars, rVars, upVars, previews, redactVars, exportVars>>

\* the rows the SELECT returns: those of file_paths, all rows without a
\* WHERE clause
ExportRows ==
    IF xRequest.file_paths # {} THEN xRequest.rows \cap xRequest.file_paths
    ELSE xRequest.rows

\* execute_statement: it raises, or it returns no rows (HTTPException 404,
\* raised inside the try block), or the content is read
ExportQuery ==
    /\ xPc = "query"
    /\ IF xRequest.fault = "query"
       THEN xResponse' = "http500" /\ xPc' = "done" /\ UNCHANGED xContentRead
       ELSE /\ xContentRead' = TRUE
            /\ IF ExportRows = {}
               THEN xResponse' = "http500" /\ xPc' = "done"
               ELSE xPc' = "export" /\ UNCHANGED xResponse
    /\ UNCHANGED xRequest
    /\ UNCHANGED <<uiVars, beVars, rVars, upVars, previews, redactVars, exportVars>>

\* EXPORTERS[request.export_format].export(...): a missing key or a failing
\* exporter raises, else the call returns success
ExportWrite ==
    /\ xPc = "export"
    /\ xResponse' =
           IF xRequest.export_format \notin EXPORTERS \/ xRequest.fault = "export"
           THEN "http500" ELSE "ok"
    /\ xPc' = "done"
    /\ UNCHANGED <<xRequest, xContentRead>>
    /\ UNCHANGED <<uiVars, beVars, rVars, upVars, previews, redactVars, exportVars>>

XNext ==
    \/ ExportChecks
    \/ ExportQuery
    \/ ExportWrite

----------------------------------------------------------------------------
(* Backend: POST /api/upload-to-uc *)

supported_extensions ==
    {".pdf", ".md", ".xlsx", ".xls", ".pptx", ".ppt", ".txt", ".doc", ".docx", ".csv", ".json"}

\* get_file_extension: os.path.splitext(filename.lower())[1]
get_file_extension(filename) == Lower(filename[2])

\* "handler_available": file_ext in ['.pdf', '.md', '.xlsx', '.pptx']
handler_available(file_ext) == file_ext \in {".pdf", ".md", ".xlsx", ".pptx"}

\* the files of an upload: a name and an extension each
UploadNames ==
    {<<"f", ext>> : ext \in {".md", ".MD", ".markdown", ".xlsx", ".xls", ".pptx",
                              ".ppt", ".pdf", ".txt", ".zip"}}

\* a call as the endpoint meets it: the files, whether the Databricks client
\* is configured, and the file whose w.files.upload raises, if any
UploadCalls ==
    [files : UNION {[1..n -> UploadNames] : n \in 0..MaxFiles},
     w : BOOLEAN, fault : 0..MaxFiles]

UpInit ==
    /\ upRequest \in UploadCalls
    /\ upIndex = 0
    /\ uploaded_files = <<>>
    /\ upResponse = "running"

\* except Exception as e: raise HTTPException(status_code=500, ...), met by
\* whatever was raised inside the try block, an HTTPException included
UploadFailed(raised) == "http500"

\* the check before the try block
UploadChecks ==
    /\ upResponse = "running"
    /\ upIndex = 0
    /\ IF ~upRequest.w
       THEN upResponse' = "http500" /\ UNCHANGED upIndex
       ELSE upIndex' = 1 /\ UNCHANGED upResponse
    /\ UNCHANGED <<upRequest, uploaded_files>>
    /\ UNCHANGED <<uiVars, beVars, rVars, previews, redactVars, exportVars,
                   xRequest, xPc, xContentRead, xResponse>>

\* one turn of the for loop: the extension is validated, the file is copied
\* to the volume and its entry is appended
UploadFile ==
    /\ upResponse = "running"
    /\ upIndex \in DOMAIN upRequest.files
    /\ LET file == upRequest.files[upIndex]
           file_ext == get_file_extension(file)
       IN  IF file_ext \notin supported_extensions
           THEN upResponse' = UploadFailed("http400") /\ UNCHANGED <<upIndex, uploaded_files>>
           ELSE IF upRequest.fault = upIndex
           THEN upResponse' = UploadFailed("error") /\ UNCHANGED <<upIndex, uploaded_files>>
           ELSE /\ uploaded_files' = Append(uploaded_files,
                       [name |-> file, path |-> file, format |-> file_ext,
                        handler_available |-> handler_available(file_ext)])
                /\ upIndex' = upIndex + 1
                /\ UNCHANGED upResponse
    /\ UNCHANGED upRequest
    /\ UNCHANGED <<uiVars, beVars, rVars, previews, redactVars, exportVars,
                   xRequest, xPc, xContentRead, xResponse>>

\* the loop is over: the call returns its list
UploadReturn ==
    /\ upResponse = "running"
    /\ upIndex = Len(upRequest.files) + 1
    /\ upResponse' = "ok"
    /\ UNCHANGED <<upRequest, upIndex, uploaded_files>>
    /\ UNCHANGED <<uiVars, beVars, rVars, previews, redactVars, exportVars,
                   xRequest, xPc, xContentRead, xResponse>>

UpNext ==
    \/ UploadChecks
    \/ UploadFile
    \/ UploadReturn

\* a call of either endpoint
EndpointsNext == UpNext \/ XNext

----------------------------------------------------------------------------
(* Specifications *)

Init == UiInit /\ BeIdle /\ RIdle /\ PgInit /\ XIdle

Next == UiNext

Spec == Init /\ [][Next]_vars

\* timers fire, and every query request eventually resolves or rejects
Fairness ==
    \A job \in 1..MaxSubmits :
        /\ WF_vars(PollFireOf(job))
        /\ WF_vars(QueryResolveOf(job) \/ QueryRejectOf(job))

FairSpec == Spec /\ Fairness

BatchInit == UiInit /\ BeInit /\ RIdle /\ PgInit /\ XIdle

SpecBatch == BatchInit /\ [][BeNext]_vars

RedactInit == UiInit /\ BeIdle /\ RInit /\ PgInit /\ XIdle

PageInit == UiInit /\ BeIdle /\ RIdle /\ PgInit /\ XIdle

SpecPage == PageInit /\ [][PageNext]_vars

FilesInit == UiInit /\ BeIdle /\ RIdle /\ PgInit /\ XIdle

SpecFiles == FilesInit /\ [][FilesNext]_vars

\* every upload request for an entry of the list eventually resolves or
\* rejects
FilesFairness ==
    \A fileIndex \in 1..MaxFiles :
        WF_vars(/\ UploadResolve \/ UploadReject
                /\ \E n \in DOMAIN uploads :
                       uploads[n].fileIndex = fileIndex /\ uploads' = RemoveAt(uploads, n))

FairSpecFiles == SpecFiles /\ FilesFairness

PairInit == UiInit /\ BeIdle /\ RIdle /\ PgInit /\ XIdle

SpecPair == PairInit /\ [][PairNext]_vars

SessionInit == UiInit /\ BeIdle /\ RIdle /\ PgInit /\ XIdle

SpecSession == SessionInit /\ [][SessionNext]_vars

SubmitInit == UiInit /\ BeIdle /\ RIdle /\ PgInit /\ XIdle

SpecSubmit == SubmitInit /\ [][SubmitNext]_vars

ExportInit == UiInit /\ BeIdle /\ RIdle /\ PgInit /\ XInit /\ UpIdle

EndpointsInit ==
    /\ UiInit /\ BeIdle /\ RIdle /\ PgInit
    /\ (UpInit /\ NoExport) \/ (UpIdle /\ XInit)

SpecEndpoints == EndpointsInit /\ [][EndpointsNext]_vars

SpecExport == ExportInit /\ [][XNext]_vars

SpecRedact == RedactInit /\ [][RNext]_vars

----------------------------------------------------------------------------
(* Job orchestration claims *)

JobExpired == ~deltaTableLoading /\ deltaTableError = "takingLonger"

\* C1: while a write job is pending (its polling chain is alive) no step
\* issues a further write-to-delta-table request: a pending job has exactly
\* the one backing request it was created with.
C1_NoDuplicateWriteWhilePending ==
    [][chains # {} => writesIssued' = writesIssued]_vars

\* a job is pending and an uploaded file is there to be submitted again
C1_Witness ==
    /\ chains # {}
    /\ UploadedPaths # {}
    /\ writeRequests # {}

\* C2: once a job has expired and its rows have arrived late in the table,
\* the rows are shown or a poll that will show them is outstanding.
C2_LateResultSurfaces ==
    (JobExpired /\ QueryData(processedSessionFiles) # {})
        => (deltaTableResults # {} \/ chains # {})

\* C9: every polling chain ends, no chain goes beyond maxAttempts queries,
\* and a chain that used them all ends expired.
C9_PollingTerminates ==
    /\ \A job \in 1..MaxSubmits : Pending(job) ~> ~Pending(job)
    /\ [](\A c \in chains :
            /\ c.attemptCount <= maxAttempts
            /\ c.pc = "query" => c.attemptCount < maxAttempts)
    /\ [][\A c \in chains :
            (c.attemptCount = maxAttempts /\ c \notin chains')
                => (JobExpired' /\ ~Pending(c.job)')]_vars

\* a chain has run out of attempts and the job is shown as expired
C9_Witness == JobExpired /\ chains = {} /\ deltaTableResults = {}

\* C10: each step issues as many write requests as it creates jobs: polling
\* (timer, query answer, query failure) issues none.
C10_PollIssuesNoWrite ==
    [][writesIssued' - writesIssued
         = Cardinality({c.job : c \in chains'} \ {c.job : c \in chains})]_vars

\* a chain has polled more than once and one write request exists
C10_Witness ==
    /\ writesIssued = 1
    /\ \E c \in chains : c.attemptCount >= 2

\* C15: once the backing request of the job on show has failed, no step
\* other than a fresh submit changes whether the job is pending, its loading
\* flag, its message or its rows; and a submit sends a backing request of its
\* own for the new job.
C15_FailedIsTerminal ==
    [][/\ \A job \in failedWrites :
             (job = writesIssued /\ writesIssued' = writesIssued) =>
                 /\ Pending(job)' = Pending(job)
                 /\ UNCHANGED <<deltaTableLoading, deltaTableError, deltaTableResults>>
       /\ writesIssued' # writesIssued =>
             \E w \in writeRequests' \ writeRequests :
                 w.id = writesIssued' /\ w.id \notin failedWrites' /\ Pending(w.id)']_vars

\* C16: no two redaction requests in flight name the same document.
C16_RedactionSerialized ==
    \A i, j \in DOMAIN redactRequests :
        i # j => redactRequests[i].file_paths \cap redactRequests[j].file_paths = {}

\* a redaction request is in flight and everything but the loading flag
\* would let the button send another one for the same file
C16_Witness ==
    /\ Len(redactRequests) = 1
    /\ documentRedactionLoading
    /\ RedactCardShown
    /\ redactRequests[1].file_paths \cap RedactablePaths # {}

\* C19: at most one polling chain exists, whatever the user does on the page.
C19_OnePollingChain == Cardinality(chains) <= 1

\* a second job is polling while a redaction and an export are in flight
\* and an uploaded file is there to be written again
C19_Witness ==
    /\ \E c \in chains : c.job = 2 /\ c.attemptCount >= 1
    /\ UploadedPaths # {}
    /\ redactRequests # <<>>
    /\ exportRequests # <<>>

\* C20: every entry of the file list that is uploaded carries the path of
\* the upload of its own file, and every preview in the list is the preview
\* of the entry's own file.
C20_CompletionsStayWithTheirFile ==
    \A i \in DOMAIN selectedFiles :
        LET f == selectedFiles[i] IN
        /\ f.isUploaded => f.ucPath = UcPath(f.name)
        /\ f.preview # NoPreview => f.preview = PreviewOf(f.name)

----------------------------------------------------------------------------
(* Substitution claims *)

\* no character of a replacement token occurs in a key
TokensDisjointFromKeys(entityMap) ==
    \A k1, k2 \in DOMAIN entityMap :
        \A i \in DOMAIN entityMap[k1], j \in DOMAIN k2 : entityMap[k1][i] # k2[j]

\* C6 as stated: for every text and EntityMap the second pass returns the
\* text of the first pass.
C6_Idempotent ==
    rPc = "twice" => rOut2.text = rOut1.text

\* no key of the map occurs in text
NoKeyOccurs(entityMap, text) == \A k \in DOMAIN entityMap : ~OccursIn(k, text)

\* C6 amended: when no key occurs in the text of the first pass, the second
\* pass returns that text; and no key occurs in it whenever no replacement
\* token shares a character with a key.
C6_IdempotentWhenNoKeyRemains ==
    rPc = "twice" =>
        /\ NoKeyOccurs(rMap, rOut1.text) =>
               (rOut2.text = rOut1.text /\ rOut2.appliedEntities = {})
        /\ TokensDisjointFromKeys(rMap) => NoKeyOccurs(rMap, rOut1.text)

\* both passes ran, the first one replaced two keys, the tokens are disjoint
C6_Witness ==
    /\ rPc = "twice"
    /\ TokensDisjointFromKeys(rMap)
    /\ Cardinality(rOut1.appliedEntities) = 2
    /\ rOut1.text # rText

\* short is a proper substring of long
Nested(short, long) == short # long /\ OccursIn(short, long)

\* keys that contain another key of the map
LongerKeys(entityMap) ==
    {l \in DOMAIN entityMap : \E s \in DOMAIN entityMap : Nested(s, l)}

\* the occurrence of key l at p overlaps no other occurrence of a key at
\* least as long
StandsAlone(l, p, text, entityMap) ==
    \A k \in DOMAIN entityMap : \A q \in 1..Len(text) :
        (Len(k) >= Len(l) /\ Occurs(k, text, q) /\ <<k, q>> # <<l, p>>)
            => (q + Len(k) <= p \/ p + Len(l) <= q)

\* the occurrence of key l at p has become one token of l
ReplacedWhole(l, p, out) ==
    \E i \in DOMAIN out.pieces : out.pieces[i] = TokenPiece(l, p)

CocaColaExample ==
    (rText = CocaColaInc /\ rMap = CocaColaMap)
        => rOut1.text = ClientToken \o <<" ", "I", "n", "c", ".">>

\* C7 as stated: every occurrence of a key that contains another key is
\* replaced as a whole by its own token, and the example holds.
C7_LongestMatch ==
    rPc \in {"once", "twice"} =>
        /\ \A l \in LongerKeys(rMap) : \A p \in 1..Len(rText) :
               Occurs(l, rText, p) => ReplacedWhole(l, p, rOut1)
        /\ CocaColaExample

\* C7 amended: every occurrence of a key that contains another key, when it
\* overlaps no other occurrence of a key at least as long, is replaced as a
\* whole by its own token, and the example holds.
C7_LongestMatchStandingAlone ==
    rPc \in {"once", "twice"} =>
        /\ \A l \in LongerKeys(rMap) : \A p \in 1..Len(rText) :
               (Occurs(l, rText, p) /\ StandsAlone(l, p, rText, rMap))
                   => ReplacedWhole(l, p, rOut1)
        /\ CocaColaExample

\* a longer key and the key inside it: the longer one was replaced as a whole
\* and the shorter one matched elsewhere in the same text
C7_Witness ==
    /\ rPc = "once"
    /\ rText \in Texts
    /\ \E l \in LongerKeys(rMap) : \E p \in 1..Len(rText) :
           /\ Occurs(l, rText, p)
           /\ StandsAlone(l, p, rText, rMap)
           /\ ReplacedWhole(l, p, rOut1)
    /\ rOut1.appliedEntities = DOMAIN rMap

\* number of characters of the original text a piece stands for
Width(piece) == IF piece.orig THEN 1 ELSE Len(piece.key)

\* the pieces are the text cut into consecutive parts: single characters of
\* the text kept as they are, and tokens each standing for an occurrence of
\* its key in the text
CutOf(pieces, text, entityMap) ==
    /\ \A i \in DOMAIN pieces :
           /\ pieces[i].pos = IF i = 1 THEN 1 ELSE pieces[i - 1].pos + Width(pieces[i - 1])
           /\ pieces[i].pos \in DOMAIN text
           /\ IF pieces[i].orig
              THEN pieces[i].ch = text[pieces[i].pos]
              ELSE pieces[i].key \in DOMAIN entityMap
                      /\ Occurs(pieces[i].key, text, pieces[i].pos)
    /\ IF pieces = <<>> THEN text = <<>>
       ELSE pieces[Len(pieces)].pos + Width(pieces[Len(pieces)]) = Len(text) + 1

\* C11: the output of a pass is the original text with disjoint occurrences
\* of keys, each found in the original characters, replaced by whole tokens:
\* no token was matched or altered by a key applied later.
C11_ReplacementInert ==
    rPc = "once" =>
        /\ CutOf(rOut1.pieces, rText, rMap)
        /\ rOut1.text = Flatten(rOut1.pieces, rMap)

\* the token of an applied key holds a key that is applied after it, and
\* that key still stands in the output
C11_Witness ==
    /\ rPc = "once"
    /\ \E k1, k2 \in DOMAIN rMap :
           /\ KeyBefore(k1, k2)
           /\ k1 \in rOut1.appliedEntities
           /\ OccursIn(k2, rMap[k1])
           /\ OccursIn(k2, rOut1.text)

\* the orders of application that the presentations of the keys lead to
Applications(keys) == {SortOrder(order) : order \in Orders(keys)}

\* the pass over text with the keys of entityMap applied in this order
RedactApplied(text, entityMap, sorted) ==
    LET pieces == ApplyKeys(InitPieces(text), sorted)
    IN [text |-> Flatten(pieces, entityMap),
        appliedEntities |-> {pieces[i].key : i \in {j \in DOMAIN pieces : ~pieces[j].orig}}]

\* C12: whatever the order in which the EntityMap presents its keys, the
\* pass yields the same output text and the same appliedEntities, those of
\* the pass that ran.
C12_OrderIndependent ==
    rPc = "once" =>
        \A sorted \in Applications(DOMAIN rMap) :
            LET out == RedactApplied(rText, rMap, sorted) IN
            /\ out.text = rOut1.text
            /\ out.appliedEntities = rOut1.appliedEntities

\* two keys of one length overlap in the text: applying them in the other
\* order would replace another part of it
C12_Witness ==
    /\ rPc = "once"
    /\ \E k1, k2 \in DOMAIN rMap : \E p \in 1..Len(rText) :
           /\ k1 # k2
           /\ Len(k1) = Len(k2)
           /\ Occurs(k1, rText, p)
           /\ Occurs(k2, rText, p + 1)
           /\ Len(k1) > 1
           /\ Cardinality(rOut1.appliedEntities) = 1

----------------------------------------------------------------------------
(* Batch redaction claims *)

CallEnded == response \in {"ok", "http400", "http500"}

\* the call passed the checks made before the loop
CallAccepted ==
    request.w /\ request.current_warehouse_id /\ request.file_paths # <<>>

\* C3: a call that was accepted ends with success and its result list holds
\* one result per input document, in input order.
C3_OneResultPerDocument ==
    (CallEnded /\ CallAccepted) =>
        /\ response = "ok"
        /\ Len(redacted_files) = Len(request.file_paths)
        /\ \A i \in DOMAIN redacted_files :
               redacted_files[i].original_file = request.file_paths[i].path

\* the handler of this document raises when it is asked to redact
Fails(doc) == ReachesRedact(doc) /\ doc.fault # "none"

\* the record the loop appends for a document processed on its own
OwnResult(doc) ==
    IF doc.entities = EmptyMap THEN NoEntitiesResult(doc) ELSE RedactedResult(doc)

\* C4: when the handler of one document of the batch raises, the call still
\* ends with success, that document is reported with status failed, and every
\* document that yields a result on its own has that result in the list.
C4_FailureIsolated ==
    (CallEnded /\ CallAccepted
        /\ \E i \in DOMAIN request.file_paths : Fails(request.file_paths[i])) =>
        /\ response = "ok"
        /\ \A i \in DOMAIN request.file_paths :
               LET doc == request.file_paths[i] IN
               /\ Fails(doc) =>
                     \E r \in Range(redacted_files) :
                         r.original_file = doc.path /\ r.status = "failed"
               /\ (ReachesEntities(doc) /\ ~Fails(doc)) =>
                     OwnResult(doc) \in Range(redacted_files)

\* C5: once the loop has passed a document that has no handler, the result
\* list holds a result for it with status unsupported_format.
C5_UnsupportedFormatReported ==
    \A i \in DOMAIN request.file_paths :
        (i < docIndex /\ ~HasHandler(request.file_paths[i])) =>
            \E r \in Range(redacted_files) :
                /\ r.original_file = request.file_paths[i].path
                /\ r.status = "unsupported_format"

\* some key of the document's EntityMap occurs in its text
SomeKeyOccurs(doc) == \E k \in DOMAIN doc.entities : OccursIn(k, doc.text)

\* C8: a result says redacted only if some key of the EntityMap occurs in
\* the document; when none occurs it says no_entities_found and the output
\* is the input.
C8_StatusFollowsMatches ==
    \A i \in DOMAIN request.file_paths : \A r \in Range(redacted_files) :
        LET doc == request.file_paths[i] IN
        r.original_file = doc.path =>
            /\ r.status = "redacted" => SomeKeyOccurs(doc)
            /\ ~SomeKeyOccurs(doc) =>
                   (r.status = "no_entities_found" /\ r.output = doc.text)

\* the keys of the document's EntityMap that the pass replaced at least once
MatchedKeys(doc) == Redact(doc.text, doc.entities).appliedEntities

\* C13: the entities a result reports are exactly the keys of the EntityMap
\* that matched at least once in the document, and its entity count is the
\* number of those keys.
C13_AppliedEntitiesReported ==
    \A i \in DOMAIN request.file_paths : \A r \in Range(redacted_files) :
        LET doc == request.file_paths[i] IN
        r.original_file = doc.path =>
            /\ DOMAIN r.entities = MatchedKeys(doc)
            /\ r.entities_count = Cardinality(MatchedKeys(doc))

\* the handlers whose can_handle accepts the extension, the declared type
ByExtension(doc) == {h \in FORMAT_HANDLERS : CanHandleExtension(h, doc.path)}
ByMime(doc) == {h \in FORMAT_HANDLERS : CanHandleMime(h, doc.mime)}

\* C14: the handler the loop resolves for a document is the one that matches
\* its extension, and when none matches its extension, the one that matches
\* its declared MIME type.
C14_ExtensionThenMime ==
    InLoop =>
        LET doc == CurrentDoc
            handler == get_format_handler(detect_file_format(doc.path))
        IN /\ ByExtension(doc) # {} => handler \in ByExtension(doc)
           /\ (ByExtension(doc) = {} /\ ByMime(doc) # {}) => handler \in ByMime(doc)

\* C18: a document whose EntityMap is empty gets no result in the list, and
\* once the loop has met it the call has been rejected as a validation error.
C18_EmptyMapRejected ==
    \A i \in DOMAIN request.file_paths :
        LET doc == request.file_paths[i] IN
        (ReachesEntities(doc) /\ doc.entities = EmptyMap) =>
            /\ \A r \in Range(redacted_files) : r.original_file # doc.path
            /\ i < docIndex => response = "http400"

----------------------------------------------------------------------------
(* Export claims *)

XEnded == xPc = "done"

\* C17 as stated: a call naming a target format without an exporter ends
\* with 400 and has read no content.
C17_UnsupportedTargetIs400 ==
    (XEnded /\ xRequest.export_format \notin EXPORTERS) =>
        (xResponse = "http400" /\ ~xContentRead)

\* C17 amended: with the Databricks client configured, a call naming a
\* target format without an exporter ends with 400 and has read no content;
\* without the client every call ends with 500.
C17_UnsupportedTargetIs400WhenConfigured ==
    XEnded =>
        /\ (xRequest.w /\ xRequest.export_format \notin EXPORTERS) =>
               (xResponse = "http400" /\ ~xContentRead)
        /\ ~xRequest.w => (xResponse = "http500" /\ ~xContentRead)

\* a call for an unsupported target whose documents have rows in the table
\* has ended with 400
C17_Witness ==
    /\ XEnded
    /\ xRequest.w
    /\ xRequest.export_format = "pdf"
    /\ xRequest.file_paths # {}
    /\ xRequest.file_paths \subseteq xRequest.rows
    /\ xRequest.fault = "none"
    /\ xResponse = "http400"

----------------------------------------------------------------------------
(* Polling claims *)

\* C21: a chain never sends more than maxAttempts query requests, and a
\* query that ends without showing rows, failed or empty, leaves the chain
\* alive with its timer armed and one more attempt counted: only rows end
\* the chain at a query.
C21_FailedQueryCounts ==
    /\ [](\A c \in chains : c.queries <= maxAttempts)
    /\ [][\A c \in chains :
            (c.pc = "query" /\ c \notin chains') =>
                \/ /\ Step(c, "timer", c.attemptCount + 1) \in chains'
                   /\ UNCHANGED <<deltaTableLoading, deltaTableError, deltaTableResults>>
                \/ /\ ~Pending(c.job)'
                   /\ deltaTableResults' = QueryData(c.filePaths)
                   /\ deltaTableResults' # {}]_vars

\* the last query a chain may send is in flight, with rows in the table
\* that a failed query leaves unseen
C21_Witness ==
    \E c \in chains :
        /\ c.pc = "query"
        /\ c.queries = maxAttempts
        /\ QueryData(c.filePaths) # {}

\* C22: a step in which a write request completes or fails changes nothing
\* the page holds: the loading flag, the message, the rows, the results
\* panel and the polling chains stay as they are, so a failed write leaves
\* its job pending.
C22_WriteFireAndForget ==
    [][(writeRequests' # writeRequests /\ writesIssued' = writesIssued) =>
          UNCHANGED <<deltaTableLoading, deltaTableError, deltaTableResults,
                      showDeltaTableResults, processedSessionFiles, selectedFiles,
                      chains>>]_vars

\* the write request of a job has failed and the job is still polling
C22_Witness ==
    \E c \in chains :
        /\ c.job \in failedWrites
        /\ c.attemptCount >= 1
        /\ deltaTableLoading
        /\ deltaTableError = "processing"

\* C23: when a query ends a chain with rows, the rows shown cover every
\* file path of the chain's submission, and the write request of that
\* submission has completed.
C23_ReadyHasEveryRow ==
    [][\A c \in chains :
         (c.pc = "query" /\ ~Pending(c.job)') =>
             /\ c.filePaths \subseteq deltaTableResults'
             /\ \A w \in writeRequests : w.id # c.job
             /\ c.job \notin failedWrites]_vars

----------------------------------------------------------------------------
(* Page claims *)

\* the file paths of the requests sent in this step
SentPaths(before, after) ==
    IF Len(after) > Len(before) THEN after[Len(after)].file_paths ELSE {}

\* C24: every redact request and every export request names only files of
\* the last write submission, and only files whose rows are on show.
C24_RequestsNameWrittenFiles ==
    [][/\ SentPaths(redactRequests, redactRequests')
             \subseteq (processedSessionFiles \cap deltaTableResults)
       /\ SentPaths(exportRequests, exportRequests')
             \subseteq (processedSessionFiles \cap deltaTableResults)]_vars

\* the job on show has ended with rows
JobReady == ~deltaTableLoading /\ deltaTableError = "null" /\ deltaTableResults # {}

\* C25: the loading flag is set exactly while a polling chain is alive; it
\* is raised by a submit only, and lowered only by the step that ends the
\* chain with rows or with the expiry message.
C25_LoadingWhilePending ==
    /\ [](deltaTableLoading <=> chains # {})
    /\ [][(~deltaTableLoading /\ deltaTableLoading') =>
             (writesIssued' = writesIssued + 1 /\ \E c \in chains' : c.job = writesIssued')]_vars
    /\ [][(deltaTableLoading /\ ~deltaTableLoading') =>
             (chains' = {} /\ (JobReady' \/ JobExpired'))]_vars

\* the second job is polling with the flag set, after the first one ended
\* and lowered it
C25_Witness ==
    /\ deltaTableLoading
    /\ \E c \in chains : c.job = 2 /\ c.attemptCount >= 1 /\ c.pc = "query"
    /\ writeRequests = {}

----------------------------------------------------------------------------
(* Endpoint status claims *)

\* the upload has met a file whose extension is not supported
UnsupportedMet ==
    /\ upResponse \notin {"idle", "running"}
    /\ upIndex \in DOMAIN upRequest.files
    /\ get_file_extension(upRequest.files[upIndex]) \notin supported_extensions

\* the export has found no row for its documents
NoDataFound ==
    /\ xPc = "done"
    /\ xContentRead
    /\ ExportRows = {}

\* C26: an upload that meets a file with an unsupported extension ends with
\* 400, and an export that finds no document data ends with 404.
C26_ExplicitStatusReachesCaller ==
    /\ UnsupportedMet => upResponse = "http400"
    /\ NoDataFound => xResponse = "http404"

\* C28: every entry of the upload's answer has handler_available set exactly
\* when redaction resolves a handler for the file's path.
C28_HandlerAvailableMeansHandler ==
    \A i \in DOMAIN uploaded_files :
        uploaded_files[i].handler_available
            <=> (get_format_handler(detect_file_format(uploaded_files[i].path)) # "None")

----------------------------------------------------------------------------
(* Redaction handler claims *)

\* C27: a step that leaves handleRedactDocuments completed shows exactly
\* one outcome: an error, or success with a list of redacted files that is
\* not empty; never success beside an error, and the loading flag is down.
C27_OneRedactionOutcome ==
    [][(redactVars' # redactVars /\ Len(redactRequests') <= Len(redactRequests)) =>
          /\ ~documentRedactionLoading'
          /\ (documentRedactionError' # "null")
                 # (documentRedactionSuccess' /\ redactedFiles' # {})
          /\ ~(documentRedactionError' # "null" /\ documentRedactionSuccess')]_vars

\* the ucPaths of the uploaded files of the list that support redaction
SupportedUcPaths ==
    {selectedFiles[i].ucPath : i \in {j \in DOMAIN selectedFiles :
        selectedFiles[j].isUploaded /\ selectedFiles[j].redactionSupported}}

\* C29: a step sends a redact request only from a state with an uploaded
\* file that supports redaction and with rows on show, and the request
\* names exactly the ucPaths of those files; a run of the handler from any
\* other state sends nothing and sets the error.
C29_RedactRequestForSupportedFiles ==
    [][/\ Len(redactRequests') > Len(redactRequests) =>
             /\ SupportedUcPaths # {}
             /\ deltaTableResults # {}
             /\ SentPaths(redactRequests, redactRequests') = SupportedUcPaths
       /\ (/\ SupportedUcPaths = {} \/ deltaTableResults = {}
           /\ redactVars' # redactVars
           /\ Len(redactRequests') >= Len(redactRequests)) =>
             /\ redactRequests' = redactRequests
             /\ documentRedactionError' # "null"]_vars

\* a redact request for the markdown file alone is in flight while the PDF
\* of the list is uploaded as well
C29_Witness ==
    /\ Len(redactRequests) = 1
    /\ redactRequests[1].file_paths = {UcPath("a.md")}
    /\ \E i \in DOMAIN selectedFiles :
           /\ selectedFiles[i].name = "b.pdf"
           /\ selectedFiles[i].isUploaded
           /\ ~selectedFiles[i].redactionSupported
    /\ UcPath("b.pdf") \in deltaTableResults

----------------------------------------------------------------------------
(* File list claims *)

\* entry fileIndex of the list is being uploaded
IsProcessing(fileIndex) ==
    fileIndex \in DOMAIN selectedFiles /\ selectedFiles[fileIndex].isProcessing

\* C30: an uploaded entry has its ucPath, an entry with a processError is
\* neither processing nor uploaded, and an entry that is processing
\* eventually is not.
C30_UploadStatesConsistent ==
    /\ [](\A i \in DOMAIN selectedFiles :
            LET f == selectedFiles[i] IN
            /\ f.isUploaded => f.ucPath # NoPath
            /\ f.processError => (~f.isProcessing /\ ~f.isUploaded))
    /\ \A fileIndex \in 1..MaxFiles : IsProcessing(fileIndex) ~> ~IsProcessing(fileIndex)

====
